---- MODULE Spec2Model ----
(***************************************************************************)
(* Model of dsp/core/analog_frontend.py: the IQ-imbalance compensator      *)
(* comp_IQ_inbalance and the RF-delay compensator comp_rf_delay.           *)
(*                                                                         *)
(* Arithmetic is exact (float64 rounding is not modelled).  A real number   *)
(* of the imbalance compensator is a rational multiple of the square root  *)
(* of a rational, or one of the IEEE specials NaN, +inf, -inf that numpy    *)
(* produces instead of raising.  A complex number of the delay compensator *)
(* is an element of Q(z), z = exp(i*pi/6), which holds the N-th roots of   *)
(* unity for N = 1, 2, 3, 4, 6, 12.                                        *)
(*                                                                         *)
(* SpecIQ: a caller passes a complex block to comp_IQ_inbalance and then   *)
(* passes the result to it again.  SpecRf: a caller passes a real block, a *)
(* delay and a sampling rate to comp_rf_delay and then passes the result   *)
(* back with the opposite delay.                                           *)
(***************************************************************************)
EXTENDS Integers, Sequences, FiniteSets, TLC

VARIABLES
    pc,             \* "call", "returned", "again": the caller's position
    signal,         \* the caller's array object passed as `signal`
    signal0,        \* the value that array held when the call was made
    delay,          \* comp_rf_delay's delay (s), a rational
    sampling_rate,  \* comp_rf_delay's sampling_rate (Hz), an integer
    result,         \* the array object the first call returned
    result0,        \* the value of that array when it was returned
    result2,        \* the array the second call returned
    raised,         \* the exception the last call raised, "none" if it returned
    locals          \* the local variables of the last call when it ended

vars == <<pc, signal, signal0, delay, sampling_rate, result, result0, result2, raised,
          locals>>

(***************************************************************************)
(* Bounds of the model.                                                    *)
(***************************************************************************)
MaxLen == 4
MaxRows == 2
MaxDelayNum == 6

\* real and imaginary parts of the samples given to comp_IQ_inbalance
IVals == {-1, 0, 1}
QVals == {-1, 1}
\* sample values of the real blocks given to comp_rf_delay
RfVals == {0, 1}
\* sampling rates (Hz) given to comp_rf_delay
SampleRates == {1, 2}

(***************************************************************************)
(* Rationals <<n, d>>, d > 0, in lowest terms.                             *)
(***************************************************************************)
Abs(x) == IF x < 0 THEN -x ELSE x

RECURSIVE GCD(_, _)
GCD(a, b) == IF b = 0 THEN a ELSE GCD(b, a % b)

Rat(n, d) ==
    LET g == GCD(Abs(n), Abs(d))
        s == IF d < 0 THEN -1 ELSE 1
    IN  <<(s * n) \div g, (s * d) \div g>>

RInt(n) == <<n, 1>>
RAdd(a, b) == Rat(a[1] * b[2] + b[1] * a[2], a[2] * b[2])
RNeg(a) == <<-a[1], a[2]>>
RMul(a, b) == IF b = <<1, 1>> THEN a ELSE Rat(a[1] * b[1], a[2] * b[2])
RDiv(a, b) == IF b = <<1, 1>> THEN a ELSE Rat(a[1] * b[2], a[2] * b[1])
RSgn(a) == IF a[1] > 0 THEN 1 ELSE IF a[1] < 0 THEN -1 ELSE 0

(***************************************************************************)
(* float64 values: c * sqrt(s) with c rational and s a positive rational,  *)
(* or NaN, or +-inf (c holds the sign).                                    *)
(***************************************************************************)
Fin(c, s) == [k |-> "fin", c |-> c, s |-> s]
FRat(c) == Fin(c, <<1, 1>>)
FInt(n) == FRat(RInt(n))
NaN == [k |-> "nan", c |-> <<0, 1>>, s |-> <<1, 1>>]
Inf(sgn) == [k |-> "inf", c |-> <<sgn, 1>>, s |-> <<1, 1>>]

IsNaN(a) == a.k = "nan"
IsFinite(a) == a.k = "fin"
IsZero(a) == a.k = "fin" /\ a.c[1] = 0
Sgn(a) == RSgn(a.c)
\* the square of a finite value, a rational
Sq(a) == RMul(RMul(a.c, a.c), a.s)

Neg(a) == IF a.k = "nan" THEN NaN ELSE [a EXCEPT !.c = RNeg(a.c)]

Add(a, b) ==
    CASE a.k = "nan" \/ b.k = "nan" -> NaN
      [] a.k = "inf" /\ b.k = "inf" -> IF Sgn(a) = Sgn(b) THEN a ELSE NaN
      [] a.k = "inf" /\ b.k = "fin" -> a
      [] a.k = "fin" /\ b.k = "inf" -> b
      [] a.k = "fin" /\ b.k = "fin" /\ a.c[1] = 0 -> b
      [] a.k = "fin" /\ b.k = "fin" /\ a.c[1] # 0 /\ b.c[1] = 0 -> a
      [] a.k = "fin" /\ b.k = "fin" /\ a.c[1] # 0 /\ b.c[1] # 0 /\ a.s = b.s ->
            Fin(RAdd(a.c, b.c), a.s)

Sub(a, b) == Add(a, Neg(b))

Mul(a, b) ==
    CASE a.k = "nan" \/ b.k = "nan" -> NaN
      [] a.k = "inf" /\ b.k = "inf" -> Inf(Sgn(a) * Sgn(b))
      [] a.k = "inf" /\ b.k = "fin" -> IF IsZero(b) THEN NaN ELSE Inf(Sgn(a) * Sgn(b))
      [] a.k = "fin" /\ b.k = "inf" -> IF IsZero(a) THEN NaN ELSE Inf(Sgn(a) * Sgn(b))
      [] a.k = "fin" /\ b.k = "fin" ->
            IF a.s = b.s THEN FRat(RMul(RMul(a.c, b.c), a.s))
            ELSE Fin(RMul(a.c, b.c), RMul(a.s, b.s))

Div(a, b) ==
    CASE a.k = "nan" \/ b.k = "nan" -> NaN
      [] a.k = "inf" /\ b.k = "inf" -> NaN
      [] a.k = "inf" /\ b.k = "fin" -> IF Sgn(b) < 0 THEN Inf(-Sgn(a)) ELSE a
      [] a.k = "fin" /\ b.k = "inf" -> FInt(0)
      [] a.k = "fin" /\ b.k = "fin" /\ b.c[1] = 0 ->
            IF a.c[1] = 0 THEN NaN ELSE Inf(Sgn(a))
      [] a.k = "fin" /\ b.k = "fin" /\ b.c[1] # 0 ->
            Fin(RDiv(a.c, b.c), RDiv(a.s, b.s))

\* np.sqrt of a value whose square root is not yet taken (a rational)
Sqrt(a) ==
    CASE a.k = "nan" -> NaN
      [] a.k = "inf" -> IF Sgn(a) > 0 THEN a ELSE NaN
      [] a.k = "fin" /\ a.c[1] < 0 -> NaN
      [] a.k = "fin" /\ a.c[1] = 0 -> FInt(0)
      [] a.k = "fin" /\ a.c[1] > 0 /\ a.s = <<1, 1>> -> Fin(<<1, 1>>, a.c)

\* equality of values as numbers (NaN equals nothing)
ValEq(a, b) ==
    /\ a.k = b.k
    /\ a.k # "nan"
    /\ Sgn(a) = Sgn(b)
    /\ a.k = "fin" => Sq(a) = Sq(b)

\* |a| <= 1
AbsLe1(a) == a.k = "fin" /\ Sq(a)[1] <= Sq(a)[2]

(***************************************************************************)
(* np.arcsin, np.sin, np.cos.  An angle is kept as the arcsine of a value  *)
(* in [-1, 1]; outside that interval np.arcsin of a float returns NaN      *)
(* (with a RuntimeWarning, no exception).                                  *)
(***************************************************************************)
ArcSin(x) == IF AbsLe1(x) THEN [k |-> "asin", arg |-> x] ELSE [k |-> "nan", arg |-> NaN]
Sin(p) == IF p.k = "nan" THEN NaN ELSE p.arg
Cos(p) == IF p.k = "nan" THEN NaN ELSE Sqrt(Sub(FInt(1), Mul(p.arg, p.arg)))

(***************************************************************************)
(* complex128 values and 1-D arrays of them.                               *)
(***************************************************************************)
Cx(re, im) == [re |-> re, im |-> im]
CAdd(a, b) == Cx(Add(a.re, b.re), Add(a.im, b.im))
CSub(a, b) == Cx(Sub(a.re, b.re), Sub(a.im, b.im))
CMul(a, b) == Cx(Sub(Mul(a.re, b.re), Mul(a.im, b.im)),
                 Add(Mul(a.re, b.im), Mul(a.im, b.re)))
CEq(a, b) == ValEq(a.re, b.re) /\ ValEq(a.im, b.im)

RECURSIVE SumTo(_, _)
SumTo(v, n) == IF n = 0 THEN FInt(0) ELSE Add(SumTo(v, n - 1), v[n])
\* np.sum of a real vector
Sum(v) == SumTo(v, Len(v))

Array(shape, data) == [shape |-> shape, data |-> data]
NoArray == Array(<<>>, <<>>)
Size(a) == Len(a.data)

\* np.mean of a complex array: the sum of all its elements over their number
Mean(a) ==
    LET n == FInt(Size(a))
    IN  Cx(Div(Sum([i \in 1..Size(a) |-> a.data[i].re]), n),
           Div(Sum([i \in 1..Size(a) |-> a.data[i].im]), n))

\* signal -= np.mean(signal): what the caller's array holds afterwards
Centered(a) ==
    LET m == Mean(a)
    IN  [a EXCEPT !.data = [i \in 1..Size(a) |-> CSub(a.data[i], m)] \o <<>>]

\* signal.real, signal.imag
RealPart(a) == [i \in 1..Size(a) |-> a.data[i].re]
ImagPart(a) == [i \in 1..Size(a) |-> a.data[i].im]

\* element-wise product of two real vectors
VMul(u, v) == [i \in 1..Len(u) |-> Mul(u[i], v[i])]

\* np.sum(I*Q)/np.sum(I**2)
mon_signal(I, Q) == Div(Sum(VMul(I, Q)), Sum(VMul(I, I)))

\* np.arcsin(-mon_signal)
phase_inbalance(mon) == ArcSin(Neg(mon))

\* (Q + np.sin(phase_inbalance)*I)/np.cos(phase_inbalance)
Q_balcd(I, Q, phase) ==
    LET sinp == Sin(phase)
        cosp == Cos(phase)
    IN  [i \in 1..Len(I) |-> Div(Add(Q[i], Mul(sinp, I[i])), cosp)] \o <<>>

\* the square of the sum in place of the sum of the squares
amp_inbalance_SquareOfSum(I, Qb) == Div(Sum(VMul(I, I)), Mul(Sum(Qb), Sum(Qb)))

\* np.sum(I**2)/np.sum(Q_balcd**2)
amp_inbalance(I, Qb) == Div(Sum(VMul(I, I)), Sum(VMul(Qb, Qb)))

\* I + 1.j * (Q_balcd * np.sqrt(amp_inbalance)), a new array
comp_singal(shape, I, Qb, amp) ==
    LET sq == Sqrt(amp)
    IN  Array(shape,
              [i \in 1..Len(I) |->
                  CAdd(Cx(I[i], FInt(0)),
                       CMul(Cx(FInt(0), FInt(1)), Cx(Mul(Qb[i], sq), FInt(0))))])

\* the function has no raise statement, and numpy reports a floating-point
\* error (division by zero, invalid value) as a warning, not an exception
comp_IQ_raises(a) == "none"

\* One call: the array left in the caller's buffer, the locals and the
\* returned array.
comp_IQ_inbalance(a) ==
    LET c == Centered(a)
        I == RealPart(c)
        Q == ImagPart(c)
        mon == mon_signal(I, Q)
        phase == phase_inbalance(mon)
        Qb == Q_balcd(I, Q, phase)
        amp == amp_inbalance(I, Qb)
    IN  [signal |-> c, I |-> I, Q |-> Q, mon_signal |-> mon, phase_inbalance |-> phase,
         Q_balcd |-> Qb, amp_inbalance |-> amp,
         raised |-> comp_IQ_raises(a),
         ret |-> comp_singal(a.shape, I, Qb, amp)]

NoLocals == [none |-> TRUE]

(***************************************************************************)
(* The caller of comp_IQ_inbalance.                                        *)
(***************************************************************************)
RECURSIVE SeqsOf(_, _)
SeqsOf(S, n) ==
    IF n = 0 THEN {<<>>}
    ELSE {Append(s, x) : s \in SeqsOf(S, n - 1), x \in S}

IQSamples == {Cx(FInt(i), FInt(q)) : i \in IVals, q \in QVals}
IQBlocks == UNION {{Array(<<n>>, d) : d \in SeqsOf(IQSamples, n)} : n \in 1..MaxLen}

InitIQ ==
    /\ pc = "call"
    /\ signal \in IQBlocks
    /\ signal0 = signal
    /\ delay = <<0, 1>>
    /\ sampling_rate = 1
    /\ result = NoArray
    /\ result0 = NoArray
    /\ result2 = NoArray
    /\ raised = "none"
    /\ locals = NoLocals

\* out = comp_IQ_inbalance(signal)
CallIQ ==
    /\ pc = "call"
    /\ LET r == comp_IQ_inbalance(signal)
       IN  /\ signal' = r.signal
           /\ result' = r.ret
           /\ result0' = r.ret
           /\ raised' = r.raised
           /\ locals' = [r EXCEPT !.signal = NoArray, !.ret = NoArray]
    /\ pc' = "returned"
    /\ UNCHANGED <<signal0, delay, sampling_rate, result2>>

\* out2 = comp_IQ_inbalance(out)
CallIQAgain ==
    /\ pc = "returned"
    /\ LET r == comp_IQ_inbalance(result)
       IN  /\ result' = r.signal
           /\ result2' = r.ret
           /\ raised' = r.raised
           /\ locals' = [r EXCEPT !.signal = NoArray, !.ret = NoArray]
    /\ pc' = "again"
    /\ UNCHANGED <<signal, signal0, delay, sampling_rate, result0>>

NextIQ == CallIQ \/ CallIQAgain

SpecIQ == InitIQ /\ [][NextIQ]_vars

(***************************************************************************)
(* Complex numbers of the delay compensator: (c[1] + c[2]*z + c[3]*z^2 +   *)
(* c[4]*z^3) / d with z = exp(i*pi/6), so z^4 = z^2 - 1, integers c and    *)
(* d > 0, in lowest terms.  1, z, z^2, z^3 are linearly independent over   *)
(* the rationals, so two such numbers are equal iff their records are.     *)
(***************************************************************************)
Cyc(c, d) ==
    LET g == GCD(GCD(GCD(GCD(d, Abs(c[1])), Abs(c[2])), Abs(c[3])), Abs(c[4]))
    IN  [c |-> <<c[1] \div g, c[2] \div g, c[3] \div g, c[4] \div g>>, d |-> d \div g]

CycInt(n) == [c |-> <<n, 0, 0, 0>>, d |-> 1]

\* (a sum of two numbers over the same denominator is left over it, not reduced)
CycAdd(x, y) ==
    IF x.d = y.d
    THEN [c |-> <<x.c[1] + y.c[1], x.c[2] + y.c[2], x.c[3] + y.c[3], x.c[4] + y.c[4]>>,
          d |-> x.d]
    ELSE Cyc(<<x.c[1] * y.d + y.c[1] * x.d, x.c[2] * y.d + y.c[2] * x.d,
               x.c[3] * y.d + y.c[3] * x.d, x.c[4] * y.d + y.c[4] * x.d>>, x.d * y.d)

CycDivInt(x, n) == Cyc(x.c, x.d * n)

\* x * z
CycRot1(x) == [c |-> <<-x.c[4], x.c[1], x.c[2] + x.c[4], x.c[3]>>, d |-> x.d]
\* x * z^3 = x * i
CycRot3(x) == [c |-> <<-x.c[2] - x.c[4], -x.c[3], x.c[2], x.c[1] + x.c[3]>>, d |-> x.d]
\* x * z^6 = -x
CycRot6(x) == [c |-> <<-x.c[1], -x.c[2], -x.c[3], -x.c[4]>>, d |-> x.d]

\* x * z^t, 0 <= t < 12
RECURSIVE CycRot(_, _)
CycRot(x, t) ==
    IF t = 0 THEN x
    ELSE IF t >= 6 THEN CycRot(CycRot6(x), t - 6)
    ELSE IF t >= 3 THEN CycRot(CycRot3(x), t - 3)
    ELSE CycRot(CycRot1(x), t - 1)

\* the complex conjugate: z -> z - z^3, z^2 -> 1 - z^2, z^3 -> -z^3
CycConj(x) == [c |-> <<x.c[1] + x.c[3], x.c[2], -x.c[3], -x.c[2] - x.c[4]>>, d |-> x.d]

\* .real: (x + conj(x)) / 2
CycReal(x) == CycDivInt(CycAdd(x, CycConj(x)), 2)

CycIsReal(x) == CycConj(x) = x

RECURSIVE CycSumTo(_, _)
CycSumTo(v, n) == IF n = 1 THEN v[1] ELSE CycAdd(CycSumTo(v, n - 1), v[n])

\* exp(2*pi*i*q) for a rational number q of turns that is a multiple of 1/12,
\* as the power of z it is
Twelfths(q) == CASE 12 % q[2] = 0 -> (q[1] * (12 \div q[2])) % 12

\* exp(2*pi*i*e/N), N a divisor of 12, as the power of z it is
RootPower(e, N) == CASE 12 % N = 0 -> (e * (12 \div N)) % 12

(***************************************************************************)
(* 2-D arrays are kept flat, row-major, with their shape.                  *)
(***************************************************************************)
Ndim(a) == Len(a.shape)
At(a, r, n) == a.data[(r - 1) * a.shape[2] + n]

\* np.atleast_2d
atleast_2d(a) == IF Ndim(a) = 1 THEN Array(<<1, a.shape[1]>>, a.data) ELSE a

\* the bins numbered 0 .. n-1, none of them a negative frequency
fftfreq_Unsigned(n, d) ==
    [j \in 1..n |-> RMul(RInt(j - 1), RDiv(<<1, 1>>, RMul(RInt(n), d)))]

\* np.fft.fftfreq(n, d): [0, 1, ..., (n-1)//2, -(n//2), ..., -1] / (d*n)
fftfreq(n, d) ==
    [j \in 1..n |->
        RMul(RInt(IF j - 1 < ((n - 1) \div 2) + 1 THEN j - 1 ELSE j - 1 - n),
             RDiv(<<1, 1>>, RMul(RInt(n), d)))]

\* np.fft.fft(a, axis=1): X[r, k] = sum_n a[r, n] * exp(-2*pi*i*k*n/N)
fft(a) ==
    LET M == a.shape[1]
        N == a.shape[2]
    IN  Array(a.shape,
              [idx \in 1..(M * N) |->
                  LET r == ((idx - 1) \div N) + 1
                      k == (idx - 1) % N
                  IN  CycSumTo([n \in 1..N |->
                                   CycRot(At(a, r, n), RootPower(-k * (n - 1), N))], N)]
              \o <<>>)

\* the forward transform in place of the inverse one
ifft_Forward(a) == fft(a)

\* np.fft.ifft(a) (the last axis): x[r, n] = (1/N) * sum_k a[r, k] * exp(2*pi*i*k*n/N)
ifft(a) ==
    LET M == a.shape[1]
        N == a.shape[2]
    IN  Array(a.shape,
              [idx \in 1..(M * N) |->
                  LET r == ((idx - 1) \div N) + 1
                      n == (idx - 1) % N
                  IN  CycDivInt(
                        CycSumTo([k \in 1..N |->
                                    CycRot(At(a, r, k), RootPower((k - 1) * n, N))], N),
                        N)]
              \o <<>>)

\* np.exp(-1j*2*np.pi*delay*freqVector) * X: broadcast along the rows
PhaseDelayed(X, dly, fv) ==
    LET N == X.shape[2]
        ramp == [k \in 1..N |-> Twelfths(RNeg(RMul(dly, fv[k])))] \o <<>>
    IN  Array(X.shape,
              [idx \in 1..Size(X) |-> CycRot(X.data[idx], ramp[((idx - 1) % N) + 1])]
              \o <<>>)

\* freqVector = np.fft.fftfreq(sig.shape[1], sampling_rate/2)
freqVector(sig, fs) == fftfreq(sig.shape[2], <<fs, 2>>) \o <<>>

\* sig_out.real whatever the input's ndim
RealOut_NoFlatten(a, sig_out) ==
    Array(sig_out.shape, [idx \in 1..Size(sig_out) |-> CycReal(sig_out.data[idx])] \o <<>>)

\* sig_out.real if signal.ndim > 1 else sig_out.real.flatten()
RealOut(a, sig_out) ==
    LET re == [idx \in 1..Size(sig_out) |-> CycReal(sig_out.data[idx])] \o <<>>
    IN  IF Ndim(a) > 1 THEN Array(sig_out.shape, re)
        ELSE Array(<<Size(sig_out)>>, re)

comp_rf_delay(a, dly, fs) ==
    LET sig == atleast_2d(a)
        fv == freqVector(sig, fs)
        sig_out == ifft(PhaseDelayed(fft(sig), dly, fv))
    IN  RealOut(a, sig_out)

\* the function has no raise statement
comp_rf_raises(a) == "none"

(***************************************************************************)
(* The caller of comp_rf_delay: a real block, 1-D or 2-D, a delay that is  *)
(* a multiple of 1/12 s and a sampling rate, such that every phase factor  *)
(* is a power of z.                                                        *)
(***************************************************************************)
RfLens == {n \in 1..MaxLen : 12 % n = 0}
RfShapes == {<<n>> : n \in RfLens} \cup {<<m, n>> : m \in 1..MaxRows, n \in RfLens}
RfSamples == {CycInt(v) : v \in RfVals}
NumEl(shape) == IF Len(shape) = 1 THEN shape[1] ELSE shape[1] * shape[2]
RfBlocks(sh) == {Array(sh, d) : d \in SeqsOf(RfSamples, NumEl(sh))}
Delays == {Rat(n, 12) : n \in (-MaxDelayNum)..MaxDelayNum}

RowLen(a) == a.shape[Len(a.shape)]

\* every phase factor of a row of length n is a power of z
Representable(n, dly, fs) ==
    \A j \in 1..n : 12 % RMul(dly, fftfreq(n, <<fs, 2>>)[j])[2] = 0

InitRf ==
    /\ pc = "call"
    /\ delay \in Delays
    /\ sampling_rate \in SampleRates
    /\ \E sh \in RfShapes :
          /\ Representable(sh[Len(sh)], delay, sampling_rate)
          /\ signal \in RfBlocks(sh)
    /\ signal0 = signal
    /\ result = NoArray
    /\ result0 = NoArray
    /\ result2 = NoArray
    /\ raised = "none"
    /\ locals = NoLocals

\* out = comp_rf_delay(signal, delay, sampling_rate)
CallRf ==
    /\ pc = "call"
    /\ result' = comp_rf_delay(signal, delay, sampling_rate)
    /\ result0' = result'
    /\ raised' = comp_rf_raises(signal)
    /\ pc' = "returned"
    /\ UNCHANGED <<signal, signal0, delay, sampling_rate, result2, locals>>

\* back = comp_rf_delay(out, -delay, sampling_rate)
CallRfBack ==
    /\ pc = "returned"
    /\ result2' = comp_rf_delay(result, RNeg(delay), sampling_rate)
    /\ raised' = comp_rf_raises(result)
    /\ pc' = "again"
    /\ UNCHANGED <<signal, signal0, delay, sampling_rate, result, result0, locals>>

NextRf == CallRf \/ CallRfBack

SpecRf == InitRf /\ [][NextRf]_vars

(***************************************************************************)
(* Properties of comp_IQ_inbalance, checked under SpecIQ.                  *)
(***************************************************************************)
ReOf(a) == [i \in 1..Size(a) |-> a.data[i].re]
ImOf(a) == [i \in 1..Size(a) |-> a.data[i].im]
ArrEq(a, b) ==
    /\ a.shape = b.shape
    /\ \A i \in 1..Size(a) : CEq(a.data[i], b.data[i])
AllFinite(a) == \A i \in 1..Size(a) : IsFinite(a.data[i].re) /\ IsFinite(a.data[i].im)
SumSq(v) == Sum(VMul(v, v))

\* the three denominators of the call that has just returned
NoDenominatorVanishes ==
    /\ ~IsZero(SumSq(locals.I))
    /\ ~IsZero(Cos(locals.phase_inbalance))
    /\ ~IsZero(SumSq(locals.Q_balcd))

OrthogonalBalanced(a) ==
    /\ IsZero(Sum(VMul(ReOf(a), ImOf(a))))
    /\ ValEq(SumSq(ReOf(a)), SumSq(ImOf(a)))

\* C1: whenever no denominator vanishes, the returned block has the shape of the
\* input and its real and imaginary parts are orthogonal and of equal power.
C1_OrthogonalBalanced ==
    (pc = "returned" /\ NoDenominatorVanishes) =>
        /\ result.shape = signal0.shape
        /\ OrthogonalBalanced(result)

\* C1 where the arcsine is defined: the same with |mon_signal| <= 1 added.
C1_InDomain ==
    (pc = "returned" /\ NoDenominatorVanishes /\ AbsLe1(locals.mon_signal)) =>
        /\ result.shape = signal0.shape
        /\ OrthogonalBalanced(result)

C1_InDomainWitness ==
    /\ pc = "returned"
    /\ NoDenominatorVanishes
    /\ AbsLe1(locals.mon_signal)
    /\ ~IsZero(locals.mon_signal)
    /\ ~ArrEq(result, signal)

\* C3: after the call the array passed as signal holds the values it held before.
C3_InputUnchanged == pc # "call" => ArrEq(signal, signal0)

\* C4: zero in-phase power raises DegenerateInputError, and no NaN or infinite
\* sample is returned.
C4_DegenerateRaises ==
    (pc = "returned" /\ IsZero(SumSq(locals.I))) =>
        /\ raised = "DegenerateInputError"
        /\ result = NoArray

\* C5: a cross-moment outside [-1, 1] is clamped before the arcsine or the call
\* fails with a domain error; no block with non-finite samples is returned.
C5_ClampOrDomainError ==
    (pc = "returned" /\ IsFinite(locals.mon_signal) /\ ~AbsLe1(locals.mon_signal)) =>
        /\ \/ raised = "DomainError"
           \/ /\ locals.phase_inbalance.k = "asin"
              /\ Sq(locals.phase_inbalance.arg) = <<1, 1>>
        /\ raised = "none" => AllFinite(result)

\* C10: a phase error of exactly +-90 degrees (cos(phase_inbalance) = 0) fails
\* with a domain error.
C10_RightAngleDomainError ==
    (pc = "returned" /\ IsZero(Cos(locals.phase_inbalance))) => raised = "DomainError"

ZeroMean(a) == IsZero(Sum(ReOf(a))) /\ IsZero(Sum(ImOf(a)))
Balanced(a) ==
    /\ ZeroMean(a)
    /\ IsZero(Sum(VMul(ReOf(a), ImOf(a))))
    /\ ~IsZero(SumSq(ReOf(a)))
    /\ ValEq(SumSq(ReOf(a)), SumSq(ImOf(a)))

\* C7: on a zero-mean, orthogonal, power-balanced block the estimated phase is 0,
\* the estimated amplitude ratio is 1 and the output is the input; and a second
\* application returns what the first returned, for a balanced input and for
\* every input whose first output is finite.
C7_BalancedIdentity ==
    /\ (pc = "returned" /\ Balanced(signal0)) =>
          /\ locals.phase_inbalance.k = "asin"
          /\ IsZero(locals.phase_inbalance.arg)
          /\ ValEq(locals.amp_inbalance, FInt(1))
          /\ ArrEq(result0, signal0)
    /\ (pc = "again" /\ (Balanced(signal0) \/ AllFinite(result0))) =>
          ArrEq(result2, result0)

C7_Witness ==
    /\ pc = "again"
    /\ Balanced(signal0)
    /\ Size(signal0) = 4
    /\ ArrEq(result0, signal0)
    /\ ArrEq(result2, signal0)

(***************************************************************************)
(* Properties of comp_rf_delay, checked under SpecRf.                      *)
(***************************************************************************)
Rows(a) == IF Ndim(a) = 1 THEN 1 ELSE a.shape[1]
\* row r of a 2-D array, as a 1-D array
Row(a, r) == Array(<<RowLen(a)>>, [n \in 1..RowLen(a) |-> a.data[(r - 1) * RowLen(a) + n]])

\* every row of a shifted m samples later, circularly
Shifted(a, m) ==
    LET N == RowLen(a)
    IN  Array(a.shape,
              [idx \in 1..Size(a) |->
                  LET r == (idx - 1) \div N
                      n == (idx - 1) % N
                  IN  a.data[r * N + ((n - m) % N) + 1]])

\* C2: a delay of m sampling periods, m an integer, shifts every row m samples
\* later, circularly.
C2_CircularShift ==
    (pc = "returned" /\ RMul(delay, RInt(sampling_rate))[2] = 1) =>
        result = Shifted(signal, RMul(delay, RInt(sampling_rate))[1])

\* What the code does there: the shift is 2*delay/sampling_rate samples.
C2_CodeShift ==
    (pc = "returned" /\ RDiv(RMul(<<2, 1>>, delay), RInt(sampling_rate))[2] = 1) =>
        result = Shifted(signal, RDiv(RMul(<<2, 1>>, delay), RInt(sampling_rate))[1])

\* the content of the Nyquist bin of row r: sum_n (-1)^n a[r, n]
RECURSIVE AltSum(_, _)
AltSum(v, n) ==
    IF n = 0 THEN CycInt(0)
    ELSE CycAdd(AltSum(v, n - 1), IF n % 2 = 1 THEN v[n] ELSE CycRot(v[n], 6))

NyquistFree(a) ==
    \A r \in 1..Rows(a) : AltSum(Row(a, r).data, RowLen(a)).c = <<0, 0, 0, 0>>

\* the phase factor the code applies to the Nyquist bin is real (+1 or -1)
NyquistPhaseReal(a, dly, fs) ==
    Twelfths(RNeg(RMul(dly, fftfreq(RowLen(a), <<fs, 2>>)[(RowLen(a) \div 2) + 1]))) \in {0, 6}

\* C6 as stated: delaying by delay and then by -delay reproduces every block.
C6_RoundTrip == pc = "again" => result2 = signal

\* C6: the round trip reproduces the block when the row length is odd, or no row
\* has content in the Nyquist bin, or the phase factor of the Nyquist bin is real.
C6_RoundTripHermitian ==
    (/\ pc = "again"
     /\ \/ RowLen(signal) % 2 = 1
        \/ NyquistFree(signal)
        \/ NyquistPhaseReal(signal, delay, sampling_rate)) =>
        result2 = signal

C6_Witness ==
    /\ pc = "again"
    /\ RowLen(signal) = 4
    /\ ~NyquistPhaseReal(signal, delay, sampling_rate)
    /\ NyquistFree(signal)
    /\ result # signal
    /\ result2 = signal

\* C8: the output has the shape of the input, and each row of a 2-D output is
\* what the call returns for that row of the input alone.
C8_ShapePreserved ==
    pc = "returned" =>
        /\ result.shape = signal.shape
        /\ Ndim(signal) = 2 =>
              \A r \in 1..Rows(signal) :
                  Row(result, r) = comp_rf_delay(Row(signal, r), delay, sampling_rate)

C8_Witness ==
    /\ pc = "returned"
    /\ signal.shape = <<2, 4>>
    /\ Row(signal, 1) # Row(signal, 2)
    /\ Row(result, 1) # Row(result, 2)
    /\ delay # <<0, 1>>
    /\ result.shape = <<2, 4>>

\* C9: a delay of zero returns a block equal to the input.
C9_ZeroDelayIdentity == (pc = "returned" /\ delay = <<0, 1>>) => result = signal

C9_Witness ==
    /\ pc = "returned"
    /\ delay = <<0, 1>>
    /\ signal.shape = <<2, 3>>
    /\ \E i \in 1..Size(signal) : signal.data[i] # CycInt(0)
    /\ result = signal

====
